---- MODULE Spec2Model ----
(***************************************************************************)
(* Round-robin discussion orchestrator of main.py (Streamlit script).      *)
(*                                                                         *)
(* One step of the model is one run of the script from top to bottom,      *)
(* triggered either by st.rerun() of the previous run or by one user       *)
(* interaction.  A run ends at the end of the script, at the first         *)
(* st.rerun() it executes, or at the first uncaught exception.  Session    *)
(* state written before the run ends is kept.                              *)
(*                                                                         *)
(* The LLM and the store are external: each call either succeeds or fails, *)
(* chosen by the environment.  Message text is abstracted to the piece of  *)
(* code that produced it; team names, roles and tags are kept.             *)
(***************************************************************************)
EXTENDS Integers, Sequences, FiniteSets, TLC

---------------------------------------------------------------------------
(* Bounds of the model *)

MaxCatalog == 2
MaxTeams == 2
MaxRounds == 2
MaxConvs == 2
MaxSessions == 2
MaxFailures == 1
MaxFiles == 3
MaxDocTeams == 3
MaxDocMessages == 5
MaxClock == 2
MaxPerLanguage == 3
MaxPerKind == 2

---------------------------------------------------------------------------
(* Program constants *)

available_teams ==
  <<"Frontend Dev", "Backend Dev", "Database Expert", "Security Specialist",
    "AI Engineer", "Project Manager", "DevOps Engineer">>

max_selections == 7
SliderMin == 1
SliderMax == 10
SliderDefault == 5
WordLimit == 150
HistoryShown == 5
LargestShown == 10
\* count > total_files * 0.3, on integers: ShareDen * count > ShareNum * total
ShareNum == 3
ShareDen == 10
LinesPerPoint == 50
ModerateFrom == 5
ComplexFrom == 15
LongFile == 300
ManyFunctions == 15
SomeFunctions == 5

Min(a, b) == IF a < b THEN a ELSE b

\* The team names the modelled user picks from.
Catalog == {available_teams[i] : i \in 1..Min(MaxCatalog, Len(available_teams))}

RECURSIVE SeqsUpTo(_, _)
\* Sequences over S of length at most n.
SeqsUpTo(S, n) ==
  IF n = 0 THEN {<<>>}
  ELSE LET shorter == SeqsUpTo(S, n - 1)
       IN shorter \cup {Append(q, x) : q \in shorter, x \in S}

NoRepeat(q) == \A i, j \in 1..Len(q) : i # j => q[i] # q[j]

\* Values the team multiselect can return: ordered, unique, at most
\* max_selections names.
Selections ==
  {q \in SeqsUpTo(Catalog, Min(MaxTeams, max_selections)) : NoRepeat(q)}

\* Values of the rounds slider the modelled user picks.
Rounds == SliderMin..Min(MaxRounds, SliderMax)

---------------------------------------------------------------------------
(* Text *)

\* A text area value, kept as its emptiness and its number of
\* whitespace-separated words.
Texts ==
  { [empty |-> TRUE,  words |-> 0],
    [empty |-> FALSE, words |-> 0],
    [empty |-> FALSE, words |-> 1],
    [empty |-> FALSE, words |-> WordLimit],
    [empty |-> FALSE, words |-> WordLimit + 1] }

\* An uploaded file: its name split at the last extension, its content,
\* and whether the content decodes as UTF-8.
NoFileName == [stem |-> "", ext |-> ""]
Files ==
  { [name |-> [stem |-> "report", ext |-> ".md"], content |-> "file text",
     utf8 |-> TRUE],
    [name |-> [stem |-> "notes", ext |-> ".txt"], content |-> "file text",
     utf8 |-> TRUE],
    [name |-> [stem |-> "README", ext |-> ".MD"], content |-> "file text",
     utf8 |-> TRUE],
    [name |-> [stem |-> "Notes", ext |-> ".Txt"], content |-> "file text",
     utf8 |-> TRUE],
    [name |-> [stem |-> "export", ext |-> ".md"], content |-> "bytes",
     utf8 |-> FALSE],
    [name |-> [stem |-> "doc", ext |-> ".pdf"], content |-> "bytes",
     utf8 |-> FALSE],
    [name |-> [stem |-> "script", ext |-> ".py"], content |-> "file text",
     utf8 |-> TRUE],
    [name |-> [stem |-> "report.md", ext |-> ".bak"], content |-> "file text",
     utf8 |-> TRUE],
    [name |-> [stem |-> "notes_txt", ext |-> ""], content |-> "file text",
     utf8 |-> TRUE] }

ManualContent == "Topic: ...\n\nGoals: ..."
FileContent == "File: ...\n\nContent:\n..."
ManualTitle == "Manual Project Description"
ResponseText == "response"
ErrorText == "OpenAI Error: ..."

\* Python truthiness of a message's model tag ("" from add_message's
\* default, None from the store).
Truthy(x) == x \notin {"", "None"}

---------------------------------------------------------------------------
(* State *)

VARIABLES
  messages,               \* st.session_state.messages
  discussion_active,      \* st.session_state.discussion_active
  teams,                  \* st.session_state.teams
  conversation_id,        \* st.session_state.conversation_id, 0 for None
  generated_files,        \* st.session_state.generated_files
  session_id,             \* st.session_state.session_id
  openai_client,          \* st.session_state.openai_client
  uploaded_file_name,     \* st.session_state.uploaded_file_name
  uploaded_file_content,  \* st.session_state.uploaded_file_content
  conversation_history,   \* st.session_state.conversation_history (ids)
  selected,               \* value of the team multiselect
  max_rounds,             \* value of the rounds slider
  db_conversations,       \* table conversations
  db_messages,            \* table messages
  db_files,               \* table generated_files
  pending,                \* the last run ended in st.rerun()
  screen,                 \* buttons rendered by the last run
  last,                   \* what the last run did
  run,                    \* turns taken since the last accepted start,
                          \* whether the transcript has reached Complete,
                          \* and, while the discussion is active, the teams
                          \* and rounds the start was accepted with
  faults,                 \* failures injected so far
  document,               \* outputs of the last document generator calls
  request,                \* what the last run sent to the LLM, if it called it
  analysis                \* input and result of the last code analysis call

vars ==
  <<messages, discussion_active, teams, conversation_id, generated_files,
    session_id, openai_client, uploaded_file_name, uploaded_file_content,
    conversation_history, selected, max_rounds, db_conversations,
    db_messages, db_files, pending, screen, last, run, faults, document,
    request, analysis>>

NoRun == [turns |-> 0, complete |-> FALSE, teams |-> <<>>, rounds |-> 0]

\* No code analysis call.
NoAnalysis == [kind |-> "none"]

\* No call of the LLM.
NoRequest ==
  [team |-> "", style |-> "", is_file_content |-> FALSE, context |-> <<>>,
   system_prompt |-> <<>>]

Init ==
  /\ messages = <<>>
  /\ discussion_active = FALSE
  /\ teams = <<>>
  /\ conversation_id = 0
  /\ generated_files = <<>>
  /\ session_id = 1
  /\ openai_client = "None"
  /\ uploaded_file_name = NoFileName
  /\ uploaded_file_content = ""
  /\ conversation_history = <<>>
  /\ selected = <<>>
  /\ max_rounds = Min(SliderDefault, MaxRounds)
  /\ db_conversations = <<>>
  /\ db_messages = <<>>
  /\ db_files = <<>>
  /\ pending = FALSE
  /\ screen = {"start", "new"}
  /\ last = [halt |-> "done", did |-> {}, llm |-> "none", click |-> "none"]
  /\ run = NoRun
  /\ faults = [llm |-> 0, db |-> 0]
  /\ document = <<>>
  /\ request = NoRequest
  /\ analysis = NoAnalysis

---------------------------------------------------------------------------
(* Persistence adapter.  ok is the outcome of the call: FALSE when         *)
(* get_db_connection yields no client or the insert raises.  The outcome  *)
(* is the environment's choice: get_db_connection reads SUPABASE_URL and  *)
(* SUPABASE_KEY, which main.py does not define, so it depends on what the *)
(* deployment provides.                                                    *)

\* Of a conversation row the model keeps the columns the program reads back
\* (id, session_id, project_title); teams and the uploaded file are only
\* written.
save_conversation_to_db(db, ok, sid, project_title) ==
  IF ok
  THEN [db |-> Append(db, [id |-> Len(db) + 1, session_id |-> sid,
                           project_title |-> project_title]),
        id |-> Len(db) + 1]
  ELSE [db |-> db, id |-> 0]

\* Variant of save_message_to_db that puts the new row first.
save_message_to_db_Front(db, ok, cid, role, content, model) ==
  IF ok
  THEN <<[conversation_id |-> cid, role |-> role,
          content |-> content, model |-> model]>> \o db
  ELSE db

save_message_to_db(db, ok, cid, role, content, model) ==
  IF ok
  THEN Append(db, [conversation_id |-> cid, role |-> role,
                   content |-> content, model |-> model])
  ELSE db

save_generated_file_to_db(db, ok, cid, file_type, file_name, file_content) ==
  IF ok
  THEN Append(db, [conversation_id |-> cid, file_type |-> file_type,
                   file_name |-> file_name, file_content |-> file_content])
  ELSE db

RECURSIVE SelectSeq2(_, _, _)
\* The rows of q, from index i on, that belong to conversation cid.
SelectSeq2(q, cid, i) ==
  IF i > Len(q) THEN <<>>
  ELSE IF q[i].conversation_id = cid
       THEN <<q[i]>> \o SelectSeq2(q, cid, i + 1)
       ELSE SelectSeq2(q, cid, i + 1)

Reverse(q) == [i \in 1..Len(q) |-> q[Len(q) + 1 - i]]

\* load_conversation_history: ids of all conversations, newest first.
load_conversation_history(db) == Reverse([i \in 1..Len(db) |-> db[i].id])

\* Conversations a lookup by session id matches.
MatchingSession(db, sid) == {i \in 1..Len(db) : db[i].session_id = sid}

\* load_conversation_from_db: the lookup is by session id and takes row 0
\* of a query without ORDER BY; pick is the row the store returns first.
load_conversation_from_db(dbc, dbm, dbf, pick) ==
  [conversation |-> dbc[pick],
   messages |-> SelectSeq2(dbm, dbc[pick].id, 1),
   files |-> Reverse(SelectSeq2(dbf, dbc[pick].id, 1))]

---------------------------------------------------------------------------
(* Session helpers *)

\* ai_count of the auto discussion.
AiCount(msgs) == Cardinality({i \in 1..Len(msgs) : Truthy(msgs[i].model)})

\* add_message; ts records that the entry has a 'timestamp' key.
add_message(msgs, role, content, model) ==
  Append(msgs, [role |-> role, content |-> content, model |-> model,
                ts |-> TRUE])

\* Whether chat.completions.create raises: always without a working
\* client, else when the environment says so.
CallRaises(client, ok) == client # "ok" \/ ~ok

\* call_openai never raises: any exception becomes the error text.
call_openai(client, ok) ==
  IF CallRaises(client, ok) THEN ErrorText ELSE ResponseText

\* Variant of NextTeam that indexes by the count after the append; the
\* round-robin properties tell it apart from NextTeam.
NextTeam_AfterAppend(tms, ai_count) == tms[((ai_count + 1) % Len(tms)) + 1]

\* Round-robin index of the auto discussion (1-based sequence).
NextTeam(tms, ai_count) == tms[(ai_count % Len(tms)) + 1]

\* initialize_openai: the client is stored before the test call.
initialize_openai(client, outcome) ==
  CASE outcome = "no_key" -> client
    [] outcome = "connected" -> "ok"
    [] outcome = "test_failed" -> "bad"

\* display_conversation reads msg['timestamp'] of every tagged message.
DisplayRaises(msgs) ==
  \E i \in 1..Len(msgs) : Truthy(msgs[i].model) /\ ~msgs[i].ts

\* First line of a message content (content.split('\n')[0]).
FirstLine(content) ==
  CASE content = ManualContent -> "Topic: ..."
    [] content = FileContent -> "File: ..."
    [] OTHER -> content

\* title.replace(' ', '_')
ReplaceSpaces(title) ==
  CASE title = "Topic: ..." -> "Topic:_..."
    [] title = "File: ..." -> "File:_..."
    [] title = "OpenAI Error: ..." -> "OpenAI_Error:_..."
    [] OTHER -> title

---------------------------------------------------------------------------
(* One script run.  A run works on a record of the session state, the     *)
(* store and its own progress:                                             *)
(*   halt      "run" while the script goes on, "rerun" after st.rerun(),   *)
(*             "crash" after an uncaught exception                         *)
(*   did       the handlers and branches the run executed                  *)
(*   rendered  the buttons the run put on the page                         *)
(*   used      the external calls the run made                             *)
(* ev is the interaction that triggered the run, with the outcomes of the  *)
(* external calls the run makes.                                           *)

Session ==
  [messages |-> messages, discussion_active |-> discussion_active,
   teams |-> teams, conversation_id |-> conversation_id,
   generated_files |-> generated_files, session_id |-> session_id,
   openai_client |-> openai_client,
   uploaded_file_name |-> uploaded_file_name,
   uploaded_file_content |-> uploaded_file_content,
   conversation_history |-> conversation_history,
   selected |-> selected, max_rounds |-> max_rounds,
   db_conversations |-> db_conversations, db_messages |-> db_messages,
   db_files |-> db_files, run |-> run,
   halt |-> "run", did |-> {}, rendered |-> {}, llm |-> "none",
   dbfail |-> 0, llmfail |-> 0, used |-> {}, request |-> NoRequest]

NoEv ==
  [kind |-> "rerun", sel |-> <<>>, rounds |-> SliderMin, openai |-> "no_key",
   hist |-> 0, pick |-> 0,
   file |-> [name |-> NoFileName, content |-> "", utf8 |-> TRUE],
   method |-> "manual",
   topic |-> [empty |-> TRUE, words |-> 0],
   goals |-> [empty |-> TRUE, words |-> 0],
   dbh |-> TRUE, db1 |-> TRUE, db2 |-> TRUE, db3 |-> TRUE, llm |-> TRUE,
   style |-> "Collaborative"]

Fail(ok) == IF ok THEN 0 ELSE 1

\* The last HistoryShown entries of the loaded history list.
ShownHistory(h) ==
  IF Len(h) <= HistoryShown THEN h
  ELSE SubSeq(h, Len(h) - HistoryShown + 1, Len(h))

\* Sidebar: team multiselect.
SidebarTeams(s, ev) ==
  LET sel == IF ev.kind = "select" THEN ev.sel ELSE s.selected
  IN [s EXCEPT !.selected = sel,
               !.teams = IF sel # <<>> THEN sel ELSE @]

\* Sidebar: "Initialize OpenAI" button.
SidebarOpenAI(s, ev) ==
  IF ev.kind = "init_openai"
  THEN [s EXCEPT !.openai_client = initialize_openai(@, ev.openai)]
  ELSE s

\* Sidebar: "Load History" button.
SidebarLoadHistory(s, ev) ==
  IF ev.kind # "load_history" THEN s
  ELSE IF ev.dbh /\ load_conversation_history(s.db_conversations) # <<>>
       THEN [s EXCEPT !.conversation_history =
                         load_conversation_history(s.db_conversations),
                      !.used = @ \cup {"dbh"}]
       ELSE [s EXCEPT !.dbfail = @ + Fail(ev.dbh),
                      !.used = @ \cup {"dbh"}]

\* Sidebar: a button of the history list.
SidebarHistoryClick(s, ev) ==
  IF ev.kind # "hist" \/ ev.hist \notin 1..Len(ShownHistory(s.conversation_history))
  THEN s
  ELSE IF ~ev.dbh
       THEN [s EXCEPT !.dbfail = @ + 1, !.used = @ \cup {"dbh"}]
       ELSE LET conv == s.db_conversations[ShownHistory(s.conversation_history)[ev.hist]]
                full_conv == load_conversation_from_db(
                               s.db_conversations, s.db_messages,
                               s.db_files, ev.pick)
            IN [s EXCEPT
                  !.messages =
                     [i \in 1..Len(full_conv.messages) |->
                        [role |-> full_conv.messages[i].role,
                         content |-> full_conv.messages[i].content,
                         model |-> full_conv.messages[i].model,
                         ts |-> FALSE]],
                  !.generated_files =
                     [i \in 1..Len(full_conv.files) |->
                        [file_type |-> full_conv.files[i].file_type,
                         file_name |-> full_conv.files[i].file_name,
                         file_content |-> full_conv.files[i].file_content]],
                  !.conversation_id = conv.id,
                  !.run = NoRun,
                  !.did = @ \cup {"load_conversation"},
                  !.used = @ \cup {"dbh"},
                  !.halt = "rerun"]

\* Sidebar: rounds slider.
SidebarRounds(s, ev) ==
  IF ev.kind = "rounds" THEN [s EXCEPT !.max_rounds = ev.rounds] ELSE s

\* Sidebar: "Clear Discussion" button.
SidebarClear(s, ev) ==
  IF ev.kind # "clear" \/ s.halt # "run" THEN s
  ELSE [s EXCEPT !.messages = <<>>,
                 !.discussion_active = FALSE,
                 !.uploaded_file_content = "",
                 !.uploaded_file_name = NoFileName,
                 !.conversation_id = 0,
                 !.generated_files = <<>>,
                 !.run = NoRun,
                 !.did = @ \cup {"clear"},
                 !.halt = "rerun"]

Sidebar(s, ev) ==
  SidebarClear(SidebarRounds(SidebarHistoryClick(
    SidebarLoadHistory(SidebarTeams(SidebarOpenAI(s, ev), ev), ev), ev), ev), ev)

---------------------------------------------------------------------------
(* Main column: project definition and Start Discussion *)

WordLimitValid(ev) ==
  ev.topic.words <= WordLimit /\ ev.goals.words <= WordLimit

\* project_content as the project definition section computes it.
ProjectContent(s, ev) ==
  IF ev.method = "manual"
  THEN IF ~ev.topic.empty /\ ~ev.goals.empty /\ WordLimitValid(ev)
       THEN ManualContent ELSE ""
  ELSE IF s.uploaded_file_content # "" THEN FileContent ELSE ""

\* process_uploaded_file: the extension is compared in lower case.
Lower(ext) ==
  CASE ext \in {".MD", ".Md", ".mD"} -> ".md"
    [] ext \in {".TXT", ".Txt", ".tXT", ".TXt"} -> ".txt"
    [] OTHER -> ext

\* Variant of process_uploaded_file that compares the extension as typed.
process_uploaded_file_AsTyped(s, file) ==
  IF file.name.ext \in {".md", ".txt"}
  THEN IF file.utf8
       THEN [s EXCEPT !.uploaded_file_content = file.content,
                      !.uploaded_file_name = file.name,
                      !.did = @ \cup {"file_loaded"},
                      !.halt = "rerun"]
       ELSE [s EXCEPT !.did = @ \cup {"file_error"}]
  ELSE [s EXCEPT !.did = @ \cup {"file_rejected"}]

\* process_uploaded_file and the button around it: an unsupported name
\* returns a failure, and so does a read or decode that raises.
process_uploaded_file(s, file) ==
  IF Lower(file.name.ext) \in {".md", ".txt"}
  THEN IF file.utf8
       THEN [s EXCEPT !.uploaded_file_content = file.content,
                      !.uploaded_file_name = file.name,
                      !.did = @ \cup {"file_loaded"},
                      !.halt = "rerun"]
       ELSE [s EXCEPT !.did = @ \cup {"file_error"}]
  ELSE [s EXCEPT !.did = @ \cup {"file_rejected"}]

\* Variant of StartValid that does not look at the team list.
StartValid_NoTeams(s, ev) ==
  LET has_content == ProjectContent(s, ev) # ""
      has_openai == s.openai_client # "None"
      word_limit_ok == ev.method = "manual" => WordLimitValid(ev)
  IN has_content /\ has_openai /\ word_limit_ok

\* Validation of the Start Discussion click.
StartValid(s, ev) ==
  LET has_content == ProjectContent(s, ev) # ""
      has_openai == s.openai_client # "None"
      has_teams == s.teams # <<>>
      word_limit_ok == ev.method = "manual" => WordLimitValid(ev)
  IN has_content /\ has_openai /\ has_teams /\ word_limit_ok

\* Accept branch of the Start Discussion click.
StartAccept(s, ev) ==
  LET content == ProjectContent(s, ev)
      title == IF ev.method = "manual" THEN ManualTitle
               ELSE s.uploaded_file_name.stem
      saved == save_conversation_to_db(
                 s.db_conversations, ev.db1, s.session_id, title)
      s1 == [s EXCEPT !.discussion_active = TRUE,
                      !.db_conversations = saved.db,
                      !.dbfail = @ + Fail(ev.db1),
                      !.run.turns = 0,
                      !.run.teams = s.teams,
                      !.run.rounds = s.max_rounds,
                      !.did = @ \cup {"start"},
                      !.used = @ \cup {"db1"},
                      !.halt = "rerun"]
  IN IF saved.id # 0
     THEN [s1 EXCEPT !.conversation_id = saved.id,
                     !.messages = add_message(@, "user", content, ""),
                     !.db_messages = save_message_to_db(
                                       @, ev.db2, saved.id, "user", content,
                                       "None"),
                     !.dbfail = @ + Fail(ev.db2),
                     !.used = @ \cup {"db2"}]
     ELSE [s1 EXCEPT !.did = @ \cup {"save_failed"}]

StartDiscussionClick(s, ev) ==
  IF StartValid(s, ev) THEN StartAccept(s, ev)
  ELSE [s EXCEPT !.did = @ \cup {"start_rejected"}]

\* The section under "if not st.session_state.discussion_active".
ProjectDefinition(s, ev) ==
  IF s.halt # "run" \/ s.discussion_active THEN s
  ELSE LET s1 == [s EXCEPT !.rendered = @ \cup {"start"}]
       IN CASE ev.kind = "process_file" /\ ev.method = "upload" ->
                 process_uploaded_file(s1, ev.file)
            [] ev.kind = "start" -> StartDiscussionClick(s1, ev)
            [] OTHER -> s1

\* display_conversation
Display(s) ==
  IF s.halt = "run" /\ DisplayRaises(s.messages)
  THEN [s EXCEPT !.halt = "crash", !.did = @ \cup {"KeyError"}]
  ELSE s

---------------------------------------------------------------------------
(* Main column: auto discussion and document generation *)

\* Variant of GeneratedDocs in which the manager summary is written under
\* the specification's name.
GeneratedDocs_SameName ==
  << [file_type |-> "markdown", suffix |-> "_Specification.md",
      file_content |-> "generate_project_md_file"],
     [file_type |-> "cursor_guide", suffix |-> "_Cursor_Prompts.md",
      file_content |-> "generate_cursor_prompt_file"],
     [file_type |-> "markdown", suffix |-> "_Specification.md",
      file_content |-> "generate_manager_summary"] >>

\* The three documents of generate_all_files, in the order it saves them.
GeneratedDocs ==
  << [file_type |-> "markdown", suffix |-> "_Specification.md",
      file_content |-> "generate_project_md_file"],
     [file_type |-> "cursor_guide", suffix |-> "_Cursor_Prompts.md",
      file_content |-> "generate_cursor_prompt_file"],
     [file_type |-> "markdown", suffix |-> "_Manager_Summary.md",
      file_content |-> "generate_manager_summary"] >>

FileName(project_title, suffix) ==
  [title |-> ReplaceSpaces(project_title), suffix |-> suffix]

FileEntry(project_title, doc) ==
  [file_type |-> doc.file_type,
   file_name |-> FileName(project_title, doc.suffix),
   file_content |-> doc.file_content]

SaveDoc(db, ok, cid, project_title, doc) ==
  save_generated_file_to_db(db, ok, cid, doc.file_type,
                            FileName(project_title, doc.suffix),
                            doc.file_content)

generate_all_files(s, project_title, ev) ==
  IF s.conversation_id = 0
  THEN [s EXCEPT !.did = @ \cup {"generate_all_files"}]
  ELSE LET oks == <<ev.db1, ev.db2, ev.db3>>
           db1 == SaveDoc(s.db_files, oks[1], s.conversation_id,
                          project_title, GeneratedDocs[1])
           db2 == SaveDoc(db1, oks[2], s.conversation_id,
                          project_title, GeneratedDocs[2])
           db3 == SaveDoc(db2, oks[3], s.conversation_id,
                          project_title, GeneratedDocs[3])
           entry(i) == IF oks[i]
                       THEN <<FileEntry(project_title, GeneratedDocs[i])>>
                       ELSE <<>>
       IN [s EXCEPT !.db_files = db3,
                    !.generated_files = entry(1) \o entry(2) \o entry(3),
                    !.dbfail = @ + Fail(oks[1]) + Fail(oks[2]) + Fail(oks[3]),
                    !.used = @ \cup {"db1", "db2", "db3"},
                    !.did = @ \cup {"generate_all_files", "success"}]

ProjectTitle(msgs) ==
  IF msgs # <<>> THEN FirstLine(msgs[1].content) ELSE "AI_Project"

\* "Generate Manager Summary Only" button.
GenerateSummaryOnly(s, ev) ==
  IF s.conversation_id = 0
  THEN s
  ELSE [s EXCEPT !.db_files = SaveDoc(@, ev.db1, s.conversation_id,
                                      ProjectTitle(s.messages),
                                      GeneratedDocs[3]),
                 !.dbfail = @ + Fail(ev.db1),
                 !.used = @ \cup {"db1"},
                 !.did = @ \cup {"generate_manager_summary"},
                 !.halt = IF ev.db1 THEN "rerun" ELSE @]

\* Variant of TurnsRemain that forgets the team count.
TurnsRemain_RoundsOnly(ai_count, rounds, tms) == ai_count < rounds

\* Whether the auto discussion takes another turn.
TurnsRemain(ai_count, rounds, tms) == ai_count < rounds * Len(tms)

\* The else branch of the auto discussion.
Completion(s, ev) ==
  LET s1 == [s EXCEPT !.rendered = @ \cup {"generate"},
                      !.run.complete = TRUE,
                      !.did = @ \cup {"complete"}]
      s2 == CASE ev.kind = "generate_all" ->
                   [generate_all_files(s1, ProjectTitle(s1.messages), ev)
                      EXCEPT !.halt = "rerun"]
              [] ev.kind = "generate_summary" -> GenerateSummaryOnly(s1, ev)
              [] OTHER -> s1
  IN IF s2.halt = "run"
     THEN [s2 EXCEPT !.discussion_active = FALSE]
     ELSE s2

\* Variant of Context that sends the user message and the latest
\* assistant message only.
Context_Window(msgs) ==
  LET tagged == SelectSeq(Tail(msgs), LAMBDA m : Truthy(m.model))
  IN <<[role |-> "user", content |-> msgs[1].content]>> \o
     (IF tagged = <<>> THEN <<>>
      ELSE <<[role |-> "assistant", content |-> tagged[Len(tagged)].content]>>)

\* The context of a turn: message 0 as the user, then every tagged message
\* after it as the assistant.
Context(msgs) ==
  LET tagged == SelectSeq(Tail(msgs), LAMBDA m : Truthy(m.model))
  IN <<[role |-> "user", content |-> msgs[1].content]>> \o
     [i \in 1..Len(tagged) |->
        [role |-> "assistant", content |-> tagged[i].content]]

\* The values of the discussion style selectbox.
Styles == {"Collaborative", "Debate", "Technical Review", "Creative Brainstorm"}

\* The role templates: of a template the model keeps whose it is, the name
\* it addresses and which of its two middle sentences it carries.
team_base_prompts(next_team, is_file_content) ==
  [t \in {available_teams[i] : i \in 1..Len(available_teams)} |->
     [template |-> t, you_are |-> next_team,
      wording |-> IF is_file_content THEN "uploaded documentation"
                  ELSE "described project"]]

\* Variant of StyleDirective whose chain ends in an else branch.
StyleDirective_Else(discussion_style) ==
  CASE discussion_style = "Debate" -> <<"Debate">>
    [] discussion_style = "Technical Review" -> <<"Technical Review">>
    [] discussion_style = "Creative Brainstorm" -> <<"Creative Brainstorm">>
    [] OTHER -> <<"Collaborative">>

\* The if/elif chain over the discussion style: what it appends.
StyleDirective(discussion_style) ==
  CASE discussion_style = "Collaborative" -> <<"Collaborative">>
    [] discussion_style = "Debate" -> <<"Debate">>
    [] discussion_style = "Technical Review" -> <<"Technical Review">>
    [] discussion_style = "Creative Brainstorm" -> <<"Creative Brainstorm">>
    [] OTHER -> <<>>

\* The system prompt of a turn, as the sequence of its parts.
SystemPrompt(next_team, is_file_content, discussion_style) ==
  LET prompts == team_base_prompts(next_team, is_file_content)
      base == IF next_team \in DOMAIN prompts THEN prompts[next_team]
              ELSE [template |-> "expert in your field",
                    you_are |-> next_team, wording |-> ""]
  IN <<base>> \o StyleDirective(discussion_style)

\* What a turn for next_team sends to call_openai.
Request(msgs, next_team, is_file_content, discussion_style) ==
  [team |-> next_team, style |-> discussion_style,
   is_file_content |-> is_file_content,
   context |-> Context(msgs),
   system_prompt |-> SystemPrompt(next_team, is_file_content,
                                  discussion_style)]

\* One turn of the auto discussion.
Turn(s, ev) ==
  IF s.messages = <<>>
  THEN [s EXCEPT !.halt = "crash", !.did = @ \cup {"IndexError"}]
  ELSE LET ai_count == AiCount(s.messages)
           next_team == NextTeam(s.teams, ai_count)
           response == call_openai(s.openai_client, ev.llm)
           persist == s.conversation_id # 0
       IN [s EXCEPT
             !.messages = add_message(@, "assistant", response, next_team),
             !.db_messages =
                IF persist
                THEN save_message_to_db(@, ev.db1, s.conversation_id,
                                        "assistant", response, next_team)
                ELSE @,
             !.dbfail = @ + (IF persist THEN Fail(ev.db1) ELSE 0),
             !.llm = IF CallRaises(s.openai_client, ev.llm) THEN "fail"
                     ELSE "ok",
             !.llmfail = @ + (IF s.openai_client = "ok" THEN Fail(ev.llm)
                              ELSE 0),
             !.used = @ \cup {"llm"} \cup (IF persist THEN {"db1"} ELSE {}),
             !.run.turns = @ + 1,
             !.request = Request(s.messages, next_team,
                                 s.uploaded_file_content # "", ev.style),
             !.did = @ \cup {"turn"},
             !.halt = "rerun"]

AutoDiscussion(s, ev) ==
  IF s.halt # "run" \/ ~(s.discussion_active /\ s.teams # <<>>) THEN s
  ELSE IF TurnsRemain(AiCount(s.messages), s.max_rounds, s.teams)
       THEN Turn(s, ev)
       ELSE Completion(s, ev)

---------------------------------------------------------------------------
(* Right column: stats panel and quick actions *)

Col2(s, ev) ==
  IF s.halt # "run" THEN s
  ELSE IF s.messages # <<>> /\ s.max_rounds * Len(s.teams) = 0
  THEN [s EXCEPT !.halt = "crash", !.did = @ \cup {"ZeroDivisionError"}]
  ELSE LET s1 == [s EXCEPT !.rendered = @ \cup {"new"}]
       IN IF ev.kind = "new"
          THEN [s1 EXCEPT !.messages = <<>>,
                          !.discussion_active = FALSE,
                          !.uploaded_file_content = "",
                          !.uploaded_file_name = NoFileName,
                          !.conversation_id = 0,
                          !.generated_files = <<>>,
                          !.session_id = @ + 1,
                          !.run = NoRun,
                          !.did = @ \cup {"new"},
                          !.halt = "rerun"]
          ELSE s1

---------------------------------------------------------------------------
(* The script, top to bottom *)

Script(s, ev) ==
  Col2(AutoDiscussion(Display(ProjectDefinition(Sidebar(s, ev), ev)), ev), ev)

\* The state a run leaves behind.  An outcome the run did not use is not a
\* choice: it is fixed to TRUE.
Commit(f, ev) ==
  /\ \A o \in {"dbh", "db1", "db2", "db3", "llm"} \ f.used : ev[o]
  /\ faults.llm + f.llmfail + faults.db + f.dbfail <= MaxFailures
  /\ messages' = f.messages
  /\ discussion_active' = f.discussion_active
  /\ teams' = f.teams
  /\ conversation_id' = f.conversation_id
  /\ generated_files' = f.generated_files
  /\ session_id' = f.session_id
  /\ openai_client' = f.openai_client
  /\ uploaded_file_name' = f.uploaded_file_name
  /\ uploaded_file_content' = f.uploaded_file_content
  /\ conversation_history' = f.conversation_history
  /\ selected' = f.selected
  /\ max_rounds' = f.max_rounds
  /\ db_conversations' = f.db_conversations
  /\ db_messages' = f.db_messages
  /\ db_files' = f.db_files
  /\ run' = IF f.discussion_active THEN f.run
             ELSE [f.run EXCEPT !.teams = <<>>, !.rounds = 0]
  /\ pending' = (f.halt = "rerun")
  /\ screen' = f.rendered
  /\ last' = [halt |-> IF f.halt = "run" THEN "done" ELSE f.halt,
              did |-> f.did, llm |-> f.llm,
              click |-> IF ev.kind \in {"generate_all", "generate_summary"}
                        THEN ev.kind ELSE "none"]
  /\ faults' = [llm |-> faults.llm + f.llmfail, db |-> faults.db + f.dbfail]
  /\ document' = document
  /\ request' = f.request
  /\ analysis' = analysis

ScriptRun(ev) == Commit(Script(Session, ev), ev)

---------------------------------------------------------------------------
(* Actions: one script run per interaction *)

\* The run st.rerun() asked for.
Rerun ==
  /\ pending
  /\ \E llm \in BOOLEAN, db1 \in BOOLEAN :
       ScriptRun([NoEv EXCEPT !.kind = "rerun", !.llm = llm, !.db1 = db1])

\* The user changes the team multiselect.
SelectTeams ==
  /\ ~pending
  /\ \E sel \in Selections \ {selected}, llm \in BOOLEAN, db1 \in BOOLEAN :
    ScriptRun([NoEv EXCEPT !.kind = "select", !.sel = sel,
                           !.llm = llm, !.db1 = db1])

\* The user moves the rounds slider.
SetRounds ==
  /\ ~pending
  /\ \E r \in Rounds \ {max_rounds}, llm \in BOOLEAN, db1 \in BOOLEAN :
    ScriptRun([NoEv EXCEPT !.kind = "rounds", !.rounds = r,
                           !.llm = llm, !.db1 = db1])

\* The user changes the discussion style (no session state depends on it).
ChangeStyle ==
  /\ ~pending
  /\ \E llm \in BOOLEAN, db1 \in BOOLEAN :
    ScriptRun([NoEv EXCEPT !.kind = "style", !.llm = llm, !.db1 = db1])

\* "Initialize OpenAI" with a missing key or with a key that works.
InitializeOpenAI ==
  /\ ~pending
  /\ \E outcome \in {"no_key", "connected"},
        llm \in BOOLEAN, db1 \in BOOLEAN :
       ScriptRun([NoEv EXCEPT !.kind = "init_openai", !.openai = outcome,
                              !.llm = llm, !.db1 = db1])

\* "Initialize OpenAI" with a key the test call rejects.
InitializeOpenAIRejected ==
  /\ ~pending
  /\ \E llm \in BOOLEAN, db1 \in BOOLEAN :
       ScriptRun([NoEv EXCEPT !.kind = "init_openai",
                              !.openai = "test_failed",
                              !.llm = llm, !.db1 = db1])

LoadHistory ==
  /\ ~pending
  /\ \E dbh \in BOOLEAN, llm \in BOOLEAN, db1 \in BOOLEAN :
    ScriptRun([NoEv EXCEPT !.kind = "load_history", !.dbh = dbh,
                           !.llm = llm, !.db1 = db1])

HistoryClick ==
  /\ ~pending
  /\ \E i \in 1..Len(ShownHistory(conversation_history)), dbh \in BOOLEAN :
    \E pick \in MatchingSession(
                  db_conversations,
                  db_conversations[ShownHistory(conversation_history)[i]].session_id) :
      ScriptRun([NoEv EXCEPT !.kind = "hist", !.hist = i, !.pick = pick,
                             !.dbh = dbh])

ClearDiscussion ==
  /\ ~pending
  /\ ScriptRun([NoEv EXCEPT !.kind = "clear"])

ProcessFileEv(file) ==
  [NoEv EXCEPT !.kind = "process_file", !.method = "upload", !.file = file]

\* The user uploads a file and clicks "Process File".
ProcessFile ==
  /\ ~pending
  /\ "start" \in screen
  /\ \E file \in Files : ScriptRun(ProcessFileEv(file))

StartEv(method, topic, goals, db1, db2) ==
  [NoEv EXCEPT !.kind = "start", !.method = method, !.topic = topic,
               !.goals = goals, !.db1 = db1, !.db2 = db2]

\* The user clicks "Start Discussion" with the given inputs.
StartDiscussion ==
  /\ ~pending
  /\ "start" \in screen
  /\ Len(db_conversations) < MaxConvs
  /\ \E method \in {"manual", "upload"}, topic \in Texts, goals \in Texts,
        db1 \in BOOLEAN, db2 \in BOOLEAN :
       ScriptRun(StartEv(method, topic, goals, db1, db2))

GenerateAllEv(db1, db2, db3) ==
  [NoEv EXCEPT !.kind = "generate_all", !.db1 = db1, !.db2 = db2,
               !.db3 = db3]

\* The user clicks "Generate All Files", a button of the completion branch.
GenerateAllClick ==
  /\ ~pending
  /\ "generate" \in screen
  /\ \E db1 \in BOOLEAN, db2 \in BOOLEAN, db3 \in BOOLEAN :
       ScriptRun(GenerateAllEv(db1, db2, db3))

GenerateSummaryClick ==
  /\ ~pending
  /\ "generate" \in screen
  /\ \E db1 \in BOOLEAN :
       ScriptRun([NoEv EXCEPT !.kind = "generate_summary", !.db1 = db1])

NewDiscussion ==
  /\ ~pending
  /\ "new" \in screen
  /\ session_id < MaxSessions
  /\ \E llm \in BOOLEAN, db1 \in BOOLEAN :
       ScriptRun([NoEv EXCEPT !.kind = "new", !.llm = llm, !.db1 = db1])

\* The discussion life cycle: settings, start, turns, completion, clear.
Next ==
  \/ Rerun
  \/ SelectTeams
  \/ SetRounds
  \/ ChangeStyle
  \/ InitializeOpenAI
  \/ ClearDiscussion
  \/ StartDiscussion
  \/ GenerateAllClick
  \/ GenerateSummaryClick

Spec == Init /\ [][Next]_vars

\* st.rerun() always leads to the next run.
FairSpec == Spec /\ WF_vars(Rerun)

\* Discussions and the history list of the sidebar.
HistoryNext ==
  \/ Rerun
  \/ SelectTeams
  \/ InitializeOpenAI
  \/ ClearDiscussion
  \/ StartDiscussion
  \/ LoadHistory
  \/ HistoryClick

HistorySpec == Init /\ [][HistoryNext]_vars

TypeOK ==
  /\ discussion_active \in BOOLEAN
  /\ pending \in BOOLEAN
  /\ conversation_id \in 0..MaxConvs
  /\ session_id \in 1..MaxSessions
  /\ teams \in Selections
  /\ selected \in Selections
  /\ max_rounds \in Rounds
  /\ openai_client \in {"None", "ok", "bad"}
  /\ Len(db_conversations) <= MaxConvs
  /\ \A i \in 1..Len(messages) : messages[i].role \in {"user", "assistant"}

\* The run st.rerun() asked for while no discussion is active.
IdleRerun ==
  /\ ~discussion_active
  /\ Rerun

\* Project input and its validation, up to the accepted start: teams,
\* client, upload, start, new session.  The runs of an accepted discussion
\* are left to Spec.
InputNext ==
  \/ IdleRerun
  \/ SelectTeams
  \/ InitializeOpenAI
  \/ InitializeOpenAIRejected
  \/ ProcessFile
  \/ StartDiscussion
  \/ NewDiscussion

InputSpec == Init /\ [][InputNext]_vars

---------------------------------------------------------------------------
(* The auto discussion block on its own: a session in which Start         *)
(* Discussion has just been accepted and persisted, then script runs in   *)
(* which the buttons of the completion branch return the given values.    *)

BlockInit ==
  /\ \E sel \in Selections \ {<<>>} :
       /\ teams = sel
       /\ selected = sel
  /\ max_rounds \in Rounds
  /\ openai_client \in {"ok", "bad"}
  /\ messages = add_message(<<>>, "user", ManualContent, "")
  /\ discussion_active = TRUE
  /\ conversation_id = 1
  /\ generated_files = <<>>
  /\ session_id = 1
  /\ uploaded_file_name = NoFileName
  /\ uploaded_file_content = ""
  /\ conversation_history = <<>>
  /\ db_conversations =
       save_conversation_to_db(<<>>, TRUE, 1, ManualTitle).db
  /\ db_messages =
       save_message_to_db(<<>>, TRUE, 1, "user", ManualContent, "None")
  /\ db_files = <<>>
  /\ pending = TRUE
  /\ screen = {"start"}
  /\ last = [halt |-> "rerun", did |-> {"start"}, llm |-> "none",
             click |-> "none"]
  /\ run = [NoRun EXCEPT !.teams = teams, !.rounds = max_rounds]
  /\ faults = [llm |-> 0, db |-> 0]
  /\ document = <<>>
  /\ request = NoRequest
  /\ analysis = NoAnalysis

\* A run in which st.button("Generate All Files") returns True.
GenerateAllPressed ==
  /\ Len(db_files) + Len(GeneratedDocs) <= MaxFiles
  /\ \E llm \in BOOLEAN, db1 \in BOOLEAN, db2 \in BOOLEAN, db3 \in BOOLEAN :
    ScriptRun([GenerateAllEv(db1, db2, db3) EXCEPT !.llm = llm])

\* A run in which st.button("Generate Manager Summary Only") returns True.
GenerateSummaryPressed ==
  /\ Len(db_files) < MaxFiles
  /\ \E llm \in BOOLEAN, db1 \in BOOLEAN :
    ScriptRun([NoEv EXCEPT !.kind = "generate_summary", !.llm = llm,
                           !.db1 = db1])

BlockNext ==
  \/ Rerun
  \/ GenerateAllPressed
  \/ GenerateSummaryPressed

BlockSpec == BlockInit /\ [][BlockNext]_vars

\* The store over the life of a session: a persisted discussion, its turns
\* and generated files, then Clear Discussion or New Discussion and a
\* second discussion started from a one-word topic and goals, with one
\* round per discussion and every call of the LLM answered.
StoreInit ==
  /\ \E sel \in Selections \ {<<>>} :
       /\ teams = sel
       /\ selected = sel
  /\ max_rounds = SliderMin
  /\ openai_client = "ok"
  /\ messages = add_message(<<>>, "user", ManualContent, "")
  /\ discussion_active = TRUE
  /\ conversation_id = 1
  /\ generated_files = <<>>
  /\ session_id = 1
  /\ uploaded_file_name = NoFileName
  /\ uploaded_file_content = ""
  /\ conversation_history = <<>>
  /\ db_conversations =
       save_conversation_to_db(<<>>, TRUE, 1, ManualTitle).db
  /\ db_messages =
       save_message_to_db(<<>>, TRUE, 1, "user", ManualContent, "None")
  /\ db_files = <<>>
  /\ pending = TRUE
  /\ screen = {"start"}
  /\ last = [halt |-> "rerun", did |-> {"start"}, llm |-> "none",
             click |-> "none"]
  /\ run = [NoRun EXCEPT !.teams = teams, !.rounds = max_rounds]
  /\ faults = [llm |-> MaxFailures, db |-> 0]
  /\ document = <<>>
  /\ request = NoRequest
  /\ analysis = NoAnalysis

StartAgain ==
  /\ ~pending
  /\ "start" \in screen
  /\ Len(db_conversations) < MaxConvs
  /\ \E db1 \in BOOLEAN, db2 \in BOOLEAN :
       ScriptRun(StartEv("manual", [empty |-> FALSE, words |-> 1],
                         [empty |-> FALSE, words |-> 1], db1, db2))

StoreNext ==
  \/ Rerun
  \/ GenerateAllPressed
  \/ GenerateSummaryPressed
  \/ ClearDiscussion
  \/ NewDiscussion
  \/ StartAgain

StoreSpec == StoreInit /\ [][StoreNext]_vars

\* A widget of the sidebar changes while a discussion is in progress: the
\* interaction starts the script run that st.rerun() asked for, with the
\* widget's new value.
SelectTeamsInProgress ==
  /\ pending
  /\ discussion_active
  /\ \E sel \in Selections \ {selected}, llm \in BOOLEAN, db1 \in BOOLEAN :
    ScriptRun([NoEv EXCEPT !.kind = "select", !.sel = sel,
                           !.llm = llm, !.db1 = db1])

SetRoundsInProgress ==
  /\ pending
  /\ discussion_active
  /\ \E r \in Rounds \ {max_rounds}, llm \in BOOLEAN, db1 \in BOOLEAN :
    ScriptRun([NoEv EXCEPT !.kind = "rounds", !.rounds = r,
                           !.llm = llm, !.db1 = db1])

\* The turns of an accepted discussion with the sidebar in use.
InProgressNext ==
  \/ Rerun
  \/ SelectTeamsInProgress
  \/ SetRoundsInProgress

InProgressSpec == BlockInit /\ [][InProgressNext]_vars

\* The user reloads the page: Streamlit starts a new session, whose state
\* the initialisation block fills in; the store is what it was.
Reload ==
  /\ session_id < MaxSessions
  /\ messages' = <<>>
  /\ discussion_active' = FALSE
  /\ teams' = <<>>
  /\ conversation_id' = 0
  /\ generated_files' = <<>>
  /\ session_id' = session_id + 1
  /\ openai_client' = "None"
  /\ uploaded_file_name' = NoFileName
  /\ uploaded_file_content' = ""
  /\ conversation_history' = <<>>
  /\ selected' = <<>>
  /\ max_rounds' = Min(SliderDefault, MaxRounds)
  /\ pending' = FALSE
  /\ screen' = {"start", "new"}
  /\ last' = [halt |-> "done", did |-> {}, llm |-> "none", click |-> "none"]
  /\ run' = NoRun
  /\ request' = NoRequest
  /\ UNCHANGED <<db_conversations, db_messages, db_files, faults, document,
                 analysis>>

\* A persisted discussion, then a later visit that loads it from the
\* history list.
ReturnNext ==
  \/ Rerun
  \/ Reload
  \/ LoadHistory
  \/ HistoryClick

ReturnSpec == BlockInit /\ [][ReturnNext]_vars

\* The request of a turn as a function of the team, the style and the
\* presence of an uploaded document, on team names and styles with and
\* without a template or directive.
BuildRequest ==
  /\ request = NoRequest
  /\ \E next_team \in Catalog \cup {"Project Manager", "DevOps Engineer",
                                   "QA Engineer"},
        discussion_style \in Styles \cup {"Socratic", ""},
        is_file_content \in BOOLEAN :
       request' = Request(messages, next_team, is_file_content,
                          discussion_style)
  /\ UNCHANGED <<messages, discussion_active, teams, conversation_id,
                 generated_files, session_id, openai_client,
                 uploaded_file_name, uploaded_file_content,
                 conversation_history, selected, max_rounds,
                 db_conversations, db_messages, db_files, pending, screen,
                 last, run, faults, document, analysis>>

PromptSpec == BlockInit /\ [][BuildRequest]_vars

---------------------------------------------------------------------------
(* Document generators.  A generator is given the message list, the title *)
(* and the team list by reference and reads the clock; its result is the  *)
(* text it returns, kept as the data-dependent parts in output order, and *)
(* the two lists as the call leaves them.                                  *)

\* Clock ticks per second of the "%Y-%m-%d %H:%M:%S" format.
TicksPerSecond == 2

\* datetime.now().strftime("%Y-%m-%d %H:%M:%S")
Strftime(clock) == clock \div TicksPerSecond

\* Message texts of the generator inputs: the i-th has i characters.
DocContents == <<"a", "bb", "ccc", "dddd", "eeeee", "ffffff", "ggggggg">>

\* len(msg['content'])
ContentLen(content) ==
  IF \E i \in 1..Len(DocContents) : DocContents[i] = content
  THEN CHOOSE i \in 1..Len(DocContents) : DocContents[i] = content
  ELSE 0

\* The goals paragraph: the first message if it is a user message.
Goals(msgs) ==
  IF msgs # <<>> /\ msgs[1].role = "user" THEN <<msgs[1].content>> ELSE <<>>

RECURSIVE team_contributions_Front(_, _)
\* Variant of team_contributions that puts a new team in front.
team_contributions_Front(rest, dict) ==
  IF rest = <<>> THEN dict
  ELSE LET msg == Head(rest)
           team == msg.model
       IN IF ~Truthy(team) THEN team_contributions_Front(Tail(rest), dict)
          ELSE IF \E i \in 1..Len(dict) : dict[i].team = team
          THEN team_contributions_Front(
                 Tail(rest),
                 [i \in 1..Len(dict) |->
                    IF dict[i].team = team
                    THEN [dict[i] EXCEPT !.contributions =
                                           Append(@, msg.content)]
                    ELSE dict[i]])
          ELSE team_contributions_Front(
                 Tail(rest),
                 <<[team |-> team, contributions |-> <<msg.content>>]>>
                   \o dict)

RECURSIVE team_contributions(_, _)
\* The dict team -> contributions, in insertion order, built by the loop
\* over messages[1:].
team_contributions(rest, dict) ==
  IF rest = <<>> THEN dict
  ELSE LET msg == Head(rest)
           team == msg.model
       IN IF ~Truthy(team) THEN team_contributions(Tail(rest), dict)
          ELSE IF \E i \in 1..Len(dict) : dict[i].team = team
          THEN team_contributions(
                 Tail(rest),
                 [i \in 1..Len(dict) |->
                    IF dict[i].team = team
                    THEN [dict[i] EXCEPT !.contributions =
                                           Append(@, msg.content)]
                    ELSE dict[i]])
          ELSE team_contributions(
                 Tail(rest),
                 Append(dict,
                        [team |-> team, contributions |-> <<msg.content>>]))

\* messages[1:]
Rest(msgs) == IF msgs = <<>> THEN <<>> ELSE Tail(msgs)

\* The "Analysis" sections: one per dict entry, contributions enumerated
\* from 1.
Sections(dict) ==
  [k \in 1..Len(dict) |->
     [team |-> dict[k].team,
      contributions |->
        [i \in 1..Len(dict[k].contributions) |->
           [number |-> i, text |-> dict[k].contributions[i]]]]]

generate_project_md_file(msgs, project_title, tms, clock) ==
  [out |-> [title |-> project_title,
            generated_on |-> Strftime(clock),
            teams_involved |-> tms,
            goals |-> Goals(msgs),
            sections |-> Sections(team_contributions(Rest(msgs), <<>>))],
   messages |-> msgs,
   teams |-> tms]

\* Teams with an entry in team_guidelines.
team_guidelines ==
  {"Frontend Dev", "Backend Dev", "Database Expert", "Security Specialist",
   "AI Engineer", "Project Manager"}

\* Variant of generate_cursor_prompt_file with a block for every team.
generate_cursor_prompt_file_AllTeams(msgs, project_title, tms, clock) ==
  [out |-> [title |-> project_title,
            generated |-> Strftime(clock),
            teams |-> tms,
            goals |-> Goals(msgs),
            guidelines |-> tms],
   messages |-> msgs,
   teams |-> tms]

generate_cursor_prompt_file(msgs, project_title, tms, clock) ==
  [out |-> [title |-> project_title,
            generated |-> Strftime(clock),
            teams |-> tms,
            goals |-> Goals(msgs),
            guidelines |-> SelectSeq(tms, LAMBDA t : t \in team_guidelines)],
   messages |-> msgs,
   teams |-> tms]

RECURSIVE SumLen(_)
SumLen(contributions) ==
  IF contributions = <<>> THEN 0
  ELSE ContentLen(Head(contributions)) + SumLen(Tail(contributions))

\* team_stats: count and total_chars per team, in insertion order.
team_stats(msgs) ==
  LET dict == team_contributions(Rest(msgs), <<>>)
  IN [k \in 1..Len(dict) |->
        [team |-> dict[k].team,
         count |-> Len(dict[k].contributions),
         total_chars |-> SumLen(dict[k].contributions)]]

\* Variant of generate_manager_summary that consumes the first message.
generate_manager_summary_Pop(msgs, project_title, tms, clock) ==
  [out |-> [title |-> project_title,
            date |-> Strftime(clock),
            team_size |-> Len(tms),
            goals |-> Goals(msgs),
            team_stats |-> team_stats(msgs),
            team_composition |-> tms],
   messages |-> Rest(msgs),
   teams |-> tms]

generate_manager_summary(msgs, project_title, tms, clock) ==
  [out |-> [title |-> project_title,
            date |-> Strftime(clock),
            team_size |-> Len(tms),
            goals |-> Goals(msgs),
            team_stats |-> team_stats(msgs),
            team_composition |-> tms],
   messages |-> msgs,
   teams |-> tms]

\* The three generators called one after the other on the same lists, as
\* generate_all_files calls them.
RunGenerators(msgs, project_title, tms, clock) ==
  LET md == generate_project_md_file(msgs, project_title, tms, clock)
      cursor == generate_cursor_prompt_file(md.messages, project_title,
                                            md.teams, clock)
      manager == generate_manager_summary(cursor.messages, project_title,
                                          cursor.teams, clock)
  IN [md |-> md.out, cursor |-> cursor.out, manager |-> manager.out,
      messages |-> manager.messages, teams |-> manager.teams]

\* Team tags of the generator inputs.
DocTeams == {available_teams[i] : i \in 1..Min(MaxDocTeams, Len(available_teams))}

\* Transcripts given to the generators: the project description followed
\* by assistant messages, and the short lists without it (the empty list,
\* lists whose message 0 is an assistant message).
DocTranscripts ==
  {add_message(<<>>, "user", ManualContent, "") \o
     [i \in 1..Len(tags) |->
        [role |-> "assistant", content |-> DocContents[i],
         model |-> tags[i], ts |-> TRUE]] :
   tags \in SeqsUpTo(DocTeams, Min(MaxDocMessages, Len(DocContents)))}
  \cup
  {[i \in 1..Len(tags) |->
      [role |-> "assistant", content |-> DocContents[i],
       model |-> tags[i], ts |-> TRUE]] :
   tags \in SeqsUpTo(DocTeams, 2)}

\* Team lists given to the generators.
DocTeamLists ==
  {<<"Frontend Dev", "Backend Dev", "Database Expert">>,
   <<"DevOps Engineer", "Frontend Dev">>}

DocInit ==
  /\ messages \in DocTranscripts
  /\ teams \in DocTeamLists
  /\ selected = teams
  /\ discussion_active = TRUE
  /\ conversation_id = 1
  /\ generated_files = <<>>
  /\ session_id = 1
  /\ openai_client = "ok"
  /\ uploaded_file_name = NoFileName
  /\ uploaded_file_content = ""
  /\ conversation_history = <<>>
  /\ max_rounds = SliderMin
  /\ db_conversations =
       save_conversation_to_db(<<>>, TRUE, 1, ManualTitle).db
  /\ db_messages = <<>>
  /\ db_files = <<>>
  /\ pending = FALSE
  /\ screen = {"generate"}
  /\ last = [halt |-> "done", did |-> {"complete"}, llm |-> "none",
             click |-> "none"]
  /\ run = [NoRun EXCEPT !.complete = TRUE]
  /\ faults = [llm |-> 0, db |-> 0]
  /\ document = <<>>
  /\ request = NoRequest
  /\ analysis = NoAnalysis

\* The generators run twice on the session's lists: the second run reads
\* the clock at the same tick as the first or one tick later.
GenerateTwice ==
  /\ document = <<>>
  /\ \E clock1 \in 0..MaxClock, later \in 0..1 :
       LET clock2 == clock1 + later IN
       LET title == ProjectTitle(messages)
           first == RunGenerators(messages, title, teams, clock1)
           second == RunGenerators(first.messages, title, first.teams, clock2)
       IN /\ document' = <<[clock |-> clock1, md |-> first.md,
                            cursor |-> first.cursor,
                            manager |-> first.manager],
                           [clock |-> clock2, md |-> second.md,
                            cursor |-> second.cursor,
                            manager |-> second.manager]>>
          /\ messages' = second.messages
          /\ teams' = second.teams
  /\ UNCHANGED <<discussion_active, conversation_id, generated_files,
                 session_id, openai_client, uploaded_file_name,
                 uploaded_file_content, conversation_history, selected,
                 max_rounds, db_conversations, db_messages, db_files,
                 pending, screen, last, run, faults, request, analysis>>

DocNext == GenerateTwice

DocSpec == DocInit /\ [][DocNext]_vars

---------------------------------------------------------------------------
(* File and folder analyzer.  A file name is its stem and its extension;   *)
(* the size of a file is the value of os.path.getsize, -1 when the call    *)
(* raises.                                                                 *)

ext_to_lang(ext) ==
  CASE ext = ".py" -> "python"
    [] ext = ".js" -> "javascript"
    [] ext = ".jsx" -> "javascript"
    [] ext = ".ts" -> "typescript"
    [] ext = ".java" -> "java"
    [] ext = ".txt" -> "text"
    [] OTHER -> "none"

\* On the names of the model the extension decides whenever it is in the
\* table; without content the result for any other name is 'unknown'.
detect_language_from_file(file) ==
  IF ext_to_lang(file.ext) # "none" THEN ext_to_lang(file.ext) ELSE "unknown"

\* structure["languages"].get(lang, 0)
LanguageCount(languages, lang) ==
  IF lang \in DOMAIN languages THEN languages[lang] ELSE 0

project_type_AtLeast(languages, total_files) ==
  IF ShareDen * LanguageCount(languages, "python") >= ShareNum * total_files
  THEN "python"
  ELSE IF ShareDen * LanguageCount(languages, "javascript")
            >= ShareNum * total_files
  THEN "javascript"
  ELSE IF ShareDen * LanguageCount(languages, "java") >= ShareNum * total_files
  THEN "java"
  ELSE "unknown"

project_type(languages, total_files) ==
  IF ShareDen * LanguageCount(languages, "python") > ShareNum * total_files
  THEN "python"
  ELSE IF ShareDen * LanguageCount(languages, "javascript")
            > ShareNum * total_files
  THEN "javascript"
  ELSE IF ShareDen * LanguageCount(languages, "java") > ShareNum * total_files
  THEN "java"
  ELSE "unknown"

\* sorted(largest_files, key=lambda x: x[1], reverse=True): entries of equal
\* size keep the order in which the walk appended them.
RECURSIVE sorted_by_size(_)
sorted_by_size(q) ==
  IF q = <<>> THEN <<>>
  ELSE LET rest == sorted_by_size(SubSeq(q, 1, Len(q) - 1))
           e == q[Len(q)]
           k == Cardinality({i \in 1..Len(rest) : rest[i][2] >= e[2]})
       IN SubSeq(rest, 1, k) \o <<e>> \o SubSeq(rest, k + 1, Len(rest))

\* files lists the files in the order of the walk.
analyze_folder_structure(files) ==
  LET total_files == Len(files)
      seen == {detect_language_from_file(files[i].name) : i \in 1..Len(files)}
      languages ==
        [lang \in seen |->
           Cardinality({i \in 1..Len(files) :
                          detect_language_from_file(files[i].name) = lang})]
      listed == SelectSeq(files, LAMBDA f : f.size >= 0)
      appended == [i \in 1..Len(listed) |-> <<listed[i].name, listed[i].size>>]
      ordered == sorted_by_size(appended)
  IN [total_files |-> total_files,
      languages |-> languages,
      largest_files |-> SubSeq(ordered, 1, Min(LargestShown, Len(ordered))),
      project_type |-> project_type(languages, total_files)]

\* The ways sizes are spread over the walk of a modelled folder.
SizePatterns == 1..3

\* A folder holding the given number of files of each extension, one of
\* them none; the size of the i-th file of the walk follows the pattern and
\* is -1 for some.
FolderFiles(py, js, java, ts, none, pattern) ==
  LET copies(ext, n) == [i \in 1..n |-> ext]
      exts == copies(".py", py) \o copies(".js", js) \o copies(".java", java)
              \o copies(".ts", ts) \o copies("", none)
  IN [i \in 1..Len(exts) |->
        [name |-> [stem |-> i, ext |-> exts[i]],
         size |-> ((i * pattern) % 5) - 1]]

\* analyze_folder_structure on one folder.
AnalyzeFolder ==
  /\ analysis = NoAnalysis
  /\ \E py \in 0..MaxPerLanguage, js \in 0..MaxPerLanguage,
        java \in 0..MaxPerLanguage, ts \in 0..MaxPerLanguage,
        none \in 0..MaxPerLanguage, pattern \in SizePatterns :
       LET files == FolderFiles(py, js, java, ts, none, pattern) IN
       analysis' = [kind |-> "folder", files |-> files,
                    structure |-> analyze_folder_structure(files)]
  /\ UNCHANGED <<messages, discussion_active, teams, conversation_id,
                 generated_files, session_id, openai_client,
                 uploaded_file_name, uploaded_file_content,
                 conversation_history, selected, max_rounds,
                 db_conversations, db_messages, db_files, pending, screen,
                 last, run, faults, document, request>>

\* The content of a file, kept as the number of its lines of each kind, the
\* lines joined by '\n':
\*   def       "def f(x):"            function  "function f(x) {"
\*   arrow     "const f = (x) => {"   cond      "if (x) {"
\*   class     "class A:"             plain     "x = 1"
\* The patterns of the analyzer match within one line, so the matches of a
\* content are the sum of the matches of its lines.

\* len(content.split('\n'))
Lines(content) ==
  LET n == content.def + content.function + content.arrow + content.cond
           + content.class + content.plain
  IN IF n = 0 THEN 1 ELSE n

\* The lengths of the lists analyze_python_file returns.
analyze_python_file(content) ==
  [functions |-> content.def, classes |-> content.class]

\* The lengths of the lists analyze_js_file returns; the third alternative
\* of its function pattern matches "if (x) {" with the name "if".
analyze_js_file(content) ==
  [functions |-> content.function + content.arrow + content.cond,
   classes |-> content.class]

calculate_complexity(content, language) ==
  LET lines == Lines(content)
      functions == IF language = "python" THEN content.def
                   ELSE content.function
      loops == content.cond
      complexity_score == functions + loops + (lines \div LinesPerPoint)
  IN IF complexity_score < ModerateFrom THEN "simple"
     ELSE IF complexity_score < ComplexFrom THEN "moderate"
     ELSE "complex"

generate_code_suggestions(a) ==
  (IF a.lines > LongFile
   THEN <<"Consider breaking this file into smaller modules">> ELSE <<>>)
  \o (IF a.functions > ManyFunctions
      THEN <<"This file has many functions - consider splitting into multiple files">>
      ELSE <<>>)
  \o (IF a.complexity = "complex"
      THEN <<"Consider refactoring for better maintainability">> ELSE <<>>)
  \o (IF a.classes = 0 /\ a.functions > SomeFunctions
      THEN <<"Consider organizing functions into classes">> ELSE <<>>)

\* functions and classes are the lengths of the lists.
analyze_code_file(file_path, content) ==
  LET language == detect_language_from_file(file_path)
      found == IF language = "python" THEN analyze_python_file(content)
               ELSE IF language \in {"javascript", "typescript"}
               THEN analyze_js_file(content)
               ELSE [functions |-> 0, classes |-> 0]
      a == [language |-> language,
            lines |-> Lines(content),
            functions |-> found.functions,
            classes |-> found.classes,
            complexity |-> calculate_complexity(content, language),
            suggestions |-> <<>>]
  IN [a EXCEPT !.suggestions = generate_code_suggestions(a)]

\* Extensions of the modelled code files, all in the table.
CodeExtensions == {".py", ".js", ".ts", ".txt"}

\* Numbers of plain lines of a modelled file.
PlainLines == {0, 50, 150, 300, 550, 700}

\* analyze_code_file on one file.
AnalyzeFile ==
  /\ analysis = NoAnalysis
  /\ \E ext \in CodeExtensions, d \in 0..MaxPerKind, f \in 0..MaxPerKind,
        a \in 0..MaxPerKind, c \in 0..MaxPerKind, k \in 0..1,
        p \in PlainLines :
       LET file_path == [stem |-> 1, ext |-> ext]
           content == [def |-> d, function |-> f, arrow |-> a, cond |-> c,
                       class |-> k, plain |-> p]
       IN analysis' = [kind |-> "file", file_path |-> file_path,
                       content |-> content,
                       result |-> analyze_code_file(file_path, content)]
  /\ UNCHANGED <<messages, discussion_active, teams, conversation_id,
                 generated_files, session_id, openai_client,
                 uploaded_file_name, uploaded_file_content,
                 conversation_history, selected, max_rounds,
                 db_conversations, db_messages, db_files, pending, screen,
                 last, run, faults, document, request>>

AnalysisNext == AnalyzeFolder \/ AnalyzeFile

AnalysisSpec == Init /\ [][AnalysisNext]_vars

---------------------------------------------------------------------------
(* Properties *)

\* The team tags of the assistant messages, in transcript order.
AssistantTags(msgs) ==
  LET tagged == SelectSeq(msgs, LAMBDA m : Truthy(m.model))
  IN [k \in 1..Len(tagged) |-> tagged[k].model]

Last(q) == q[Len(q)]

\* The position of team t in the team list tms (0 if absent).
IndexOf(tms, t) ==
  IF \E i \in 1..Len(tms) : tms[i] = t
  THEN CHOOSE i \in 1..Len(tms) : tms[i] = t
  ELSE 0

\* C1: when a discussion run reaches Complete, with the team list T and the
\* round count R it was started with, the run has appended exactly R*|T|
\* assistant messages and the k-th assistant message of the transcript
\* (0-indexed) is tagged T[k mod |T|].  (Under Spec the user changes teams
\* and rounds only between runs of the auto discussion.)
C1_RoundRobinCount ==
  "complete" \in last.did =>
    /\ run.turns = max_rounds * Len(teams)
    /\ \A k \in 1..Len(AssistantTags(messages)) :
         AssistantTags(messages)[k] = teams[((k - 1) % Len(teams)) + 1]

\* C2: a non-empty message list starts with a user message without team tag.
C2_MessageZeroIsUser ==
  messages # <<>> =>
    /\ messages[1].role = "user"
    /\ ~Truthy(messages[1].model)

\* C3: a turn whose LLM call raises appends exactly one assistant message,
\* tagged with the team whose turn it was, with the error text as content;
\* the assistant count grows by one, the call is made once, and the turn
\* after it is tagged with the next team of the list.
C3_FailedCallIsATurn ==
  [][ /\ ("turn" \in last'.did /\ last'.llm = "fail") =>
           /\ messages' =
                Append(messages,
                       [role |-> "assistant", content |-> ErrorText,
                        model |-> teams'[(AiCount(messages) % Len(teams')) + 1],
                        ts |-> TRUE])
           /\ AiCount(messages') = AiCount(messages) + 1
           /\ run'.turns = run.turns + 1
           /\ faults'.llm <= faults.llm + 1
      /\ ("turn" \in last'.did /\ "turn" \in last.did /\ last.llm = "fail") =>
           /\ Len(messages') = Len(messages) + 1
           /\ Last(messages').model =
                teams'[(IndexOf(teams', Last(messages).model) % Len(teams')) + 1]
    ]_vars

C3_Witness ==
  /\ "turn" \in last.did
  /\ last.llm = "ok"
  /\ Len(messages) >= 3
  /\ messages[Len(messages) - 1].content = ErrorText
  /\ Last(messages).model # messages[Len(messages) - 1].model

\* C4: an active discussion with teams eventually reaches the completion
\* branch, whatever the LLM and the store do.
C4_EventuallyComplete ==
  (discussion_active /\ teams # <<>>) ~> ("complete" \in last.did)

\* C5: a click on "Generate All Files" is processed by the run it triggers:
\* generate_all_files executes.
C5_GenerateIsInvokable ==
  last.click = "generate_all" => "generate_all_files" \in last.did

\* The file types of a list of generated files.
FileTypes(files) == [i \in 1..Len(files) |-> files[i].file_type]

PairwiseDistinct(q) == \A i, j \in 1..Len(q) : i # j => q[i] # q[j]

\* A run executed generate_all_files for a conversation and none of its
\* appends failed.
GeneratedAll ==
  /\ "generate_all_files" \in last'.did
  /\ conversation_id' # 0
  /\ faults'.db = faults.db

C7_NoTurnAfterComplete ==
  [][ (run.complete /\ messages # <<>>) =>
        ~ /\ Len(messages') > Len(messages)
          /\ SubSeq(messages', 1, Len(messages)) = messages
          /\ AiCount(messages') > AiCount(messages) ]_vars

\* A step that appends a generated file to the store or generates the
\* session's files.
AppendsFile ==
  \/ Len(db_files') > Len(db_files)
  \/ generated_files' # generated_files /\ generated_files' # <<>>

\* C8: a generated file is appended, to the store or to the session, only
\* from a state in which the number of assistant messages has reached
\* rounds * team count, and with teams and rounds fixed no generated file
\* exists while assistant turns remain.
C8_FilesOnlyAfterLimit ==
  /\ [][ AppendsFile => AiCount(messages) >= max_rounds * Len(teams) ]_vars
  /\ []((db_files # <<>> \/ generated_files # <<>>) =>
          AiCount(messages) >= max_rounds * Len(teams))

C8_Witness ==
  /\ db_files # <<>>
  /\ generated_files # <<>>
  /\ AiCount(messages) = max_rounds * Len(teams)

\* C9: discussion_active becomes true only by a Start Discussion click made
\* with non-blank project content, a non-empty current team selection and
\* an LLM client.
C9_StartNeedsContentTeamsClient ==
  [][ (~discussion_active /\ discussion_active') =>
        /\ selected' # <<>>
        /\ openai_client' # "None"
        /\ \E method \in {"manual", "upload"}, topic \in Texts,
              goals \in Texts, db1 \in BOOLEAN, db2 \in BOOLEAN :
             /\ ScriptRun(StartEv(method, topic, goals, db1, db2))
             /\ ProjectContent(Session,
                               StartEv(method, topic, goals, db1, db2)) # ""
    ]_vars

\* C10: while the discussion is active a conversation has been persisted
\* for it and the transcript starts with the user's project description.
C10_ActiveHasConversation ==
  discussion_active =>
    /\ conversation_id # 0
    /\ messages # <<>>
    /\ messages[1].role = "user"

\* Inputs of a Start Discussion click that validation has to refuse: no
\* team, no LLM client, no content, or a field over the word limit.
StartInvalid(method, topic, goals) ==
  \/ teams = <<>>
  \/ openai_client = "None"
  \/ /\ method = "manual"
     /\ \/ topic.empty
        \/ goals.empty
        \/ topic.words > 150
        \/ goals.words > 150
  \/ method = "upload" /\ uploaded_file_content = ""

\* File name extensions the upload path does not support.
UnsupportedExt == {".pdf", ".py", ".bak", ""}

\* C11: a Start Discussion click that fails validation changes none of
\* messages, discussion_active, conversation_id and the store, and
\* processing a file with an unsupported extension changes neither
\* uploaded_file_content nor uploaded_file_name.
C11_RejectionLeavesState ==
  [][ /\ \/ UNCHANGED <<messages, discussion_active, conversation_id,
                        db_conversations, db_messages, db_files>>
         \/ \A method \in {"manual", "upload"}, topic \in Texts,
               goals \in Texts :
              ~ /\ ~pending
                /\ "start" \in screen
                /\ StartInvalid(method, topic, goals)
                /\ ScriptRun(StartEv(method, topic, goals, TRUE, TRUE))
      /\ \/ UNCHANGED <<uploaded_file_content, uploaded_file_name>>
         \/ \A file \in Files :
              ~ /\ ~pending
                /\ "start" \in screen
                /\ file.name.ext \in UnsupportedExt
                /\ ScriptRun(ProcessFileEv(file))
    ]_vars

C11_Witness ==
  /\ "start_rejected" \in last.did
  /\ uploaded_file_content # ""
  /\ teams # <<>>
  /\ openai_client # "None"

\* C12: on the manual-input path, with a team and a client, a Start
\* Discussion click starts the discussion exactly when topic and goals each
\* have between 1 and 150 whitespace-separated words; 151 or more words in
\* a field, or a field without any word, is rejected.
C12_WordCountGate ==
  [][ \A topic \in Texts, goals \in Texts, db1 \in BOOLEAN, db2 \in BOOLEAN :
        ( /\ ~pending
          /\ "start" \in screen
          /\ teams # <<>>
          /\ openai_client # "None"
          /\ ScriptRun(StartEv("manual", topic, goals, db1, db2)) )
        => ( discussion_active' <=>
               /\ topic.words \in 1..150
               /\ goals.words \in 1..150 )
    ]_vars

\* Extensions that equal .md or .txt when compared without regard to case.
SupportedExt == {".md", ".MD", ".txt", ".Txt"}

\* C13: process_uploaded_file accepts a file, storing its name and content,
\* if and only if the name ends with .md or .txt compared
\* case-insensitively; every other name is rejected with a failure result
\* and nothing is stored.
C13_FileTypeGate ==
  [][ \A file \in Files :
        ( /\ ~pending
          /\ "start" \in screen
          /\ ScriptRun(ProcessFileEv(file)) )
        => IF file.name.ext \in SupportedExt
           THEN /\ "file_loaded" \in last'.did
                /\ "file_rejected" \notin last'.did
                /\ uploaded_file_name' = file.name
                /\ uploaded_file_content' = file.content
           ELSE /\ "file_rejected" \in last'.did
                /\ "file_loaded" \notin last'.did
                /\ UNCHANGED <<uploaded_file_name, uploaded_file_content>>
    ]_vars

\* C13 amended: process_uploaded_file accepts a file if and only if its name
\* ends with .md or .txt compared case-insensitively and its content decodes
\* as UTF-8.  A name with another ending is rejected as unsupported; a
\* supported name whose content does not decode is rejected with a read
\* error.  A rejection stores nothing.
C13_NameAndEncodingGate ==
  [][ \A file \in Files :
        ( /\ ~pending
          /\ "start" \in screen
          /\ ScriptRun(ProcessFileEv(file)) )
        => CASE file.name.ext \in SupportedExt /\ file.utf8 ->
                  /\ last'.did \cap {"file_loaded", "file_rejected",
                                     "file_error"} = {"file_loaded"}
                  /\ uploaded_file_name' = file.name
                  /\ uploaded_file_content' = file.content
             [] file.name.ext \in SupportedExt /\ ~file.utf8 ->
                  /\ last'.did \cap {"file_loaded", "file_rejected",
                                     "file_error"} = {"file_error"}
                  /\ UNCHANGED <<uploaded_file_name, uploaded_file_content>>
             [] OTHER ->
                  /\ last'.did \cap {"file_loaded", "file_rejected",
                                     "file_error"} = {"file_rejected"}
                  /\ UNCHANGED <<uploaded_file_name, uploaded_file_content>>
    ]_vars

C13_Witness ==
  /\ "file_loaded" \in last.did
  /\ uploaded_file_name = [stem |-> "README", ext |-> ".MD"]
  /\ uploaded_file_content # ""

\* The tags of a transcript's messages after the first, untagged ones
\* dropped.
TagsAfterFirst(msgs) == AssistantTags(Rest(msgs))

\* The positions of q that hold the first occurrence of their value.
FirstAt(q) == {i \in 1..Len(q) : \A j \in 1..(i - 1) : q[j] # q[i]}

\* The values of q in order of first appearance.
FirstAppearance(q) ==
  [k \in 1..Cardinality(FirstAt(q)) |->
     q[CHOOSE i \in FirstAt(q) :
         Cardinality({j \in FirstAt(q) : j < i}) = k - 1]]

\* The texts of the messages after the first that carry tag t, in order.
TextsOf(msgs, t) ==
  LET mine == SelectSeq(Rest(msgs), LAMBDA m : m.model = t)
  IN [i \in 1..Len(mine) |-> mine[i].content]

\* C14: the specification document has one section per team, in order of
\* the team's first appearance in the transcript; within a section the
\* team's contributions appear in chronological order, numbered 1, 2, ...,
\* each exactly once.
C14_StableGrouping ==
  document # <<>> =>
    LET sections == document[1].md.sections
    IN /\ [k \in 1..Len(sections) |-> sections[k].team] =
            FirstAppearance(TagsAfterFirst(messages))
       /\ \A k \in 1..Len(sections) :
            /\ [i \in 1..Len(sections[k].contributions) |->
                  sections[k].contributions[i].text] =
                 TextsOf(messages, sections[k].team)
            /\ \A i \in 1..Len(sections[k].contributions) :
                 sections[k].contributions[i].number = i

C14_Witness ==
  /\ document # <<>>
  /\ TagsAfterFirst(messages) =
       <<"Backend Dev", "Frontend Dev", "Backend Dev", "Frontend Dev",
         "Database Expert">>
  /\ [k \in 1..Len(document[1].md.sections) |->
        document[1].md.sections[k].team] =
       <<"Backend Dev", "Frontend Dev", "Database Expert">>

C16_SessionIdFixed == [][session_id' = session_id]_vars

\* C17: a failed initialize_openai (missing or malformed key) leaves the
\* LLM adapter not ready: a Start Discussion click moves the session to
\* InProgress only with a client whose initialisation succeeded.
C17_FailedInitBlocksStart ==
  [][ (~discussion_active /\ discussion_active') => openai_client' = "ok"
    ]_vars

\* q is an initial segment of r.
IsPrefix(q, r) == Len(q) <= Len(r) /\ SubSeq(r, 1, Len(q)) = q

\* C18: the persisted store is append-only: no step deletes, modifies or
\* reorders an existing Conversation, Message or GeneratedFile row, Clear
\* Discussion and New Discussion leave the store as it is, and the
\* persisted messages of each conversation keep their insertion order.
C18_StoreAppendOnly ==
  [][ /\ IsPrefix(db_conversations, db_conversations')
      /\ IsPrefix(db_messages, db_messages')
      /\ IsPrefix(db_files, db_files')
      /\ \A cid \in 1..MaxConvs :
           IsPrefix(SelectSeq2(db_messages, cid, 1),
                    SelectSeq2(db_messages', cid, 1))
      /\ (last'.did \cap {"clear", "new"} # {}) =>
           UNCHANGED <<db_conversations, db_messages, db_files>>
    ]_vars

C18_Witness ==
  /\ last.did \cap {"clear", "new"} # {}
  /\ messages = <<>>
  /\ Len(db_conversations) >= 1
  /\ Len(db_messages) >= 2
  /\ Len(db_files) >= 1

\* C19: while a discussion is in progress, the team list T0 and the round
\* limit R0 in force when it started drive it, whatever the sidebar shows
\* since: the k-th assistant message (0-indexed) is tagged T0[k mod |T0|]
\* and the assistant messages never number more than R0 * |T0|.
C19_StartSettingsDrive ==
  discussion_active =>
    /\ \A k \in 1..Len(AssistantTags(messages)) :
         AssistantTags(messages)[k] =
           run.teams[((k - 1) % Len(run.teams)) + 1]
    /\ AiCount(messages) <= run.rounds * Len(run.teams)

\* C20: every successful Start Discussion begins from a fresh transcript:
\* right after it the message list is exactly the new user message, with
\* no assistant message, also when the click follows a completed
\* discussion that was neither cleared nor replaced by a new one.
C20_StartFromFreshTranscript ==
  [][ ("start" \in last'.did /\ "save_failed" \notin last'.did) =>
        /\ Len(messages') = 1
        /\ AiCount(messages') = 0
    ]_vars

\* The positions of the tagged messages of msgs, in ascending order.
TaggedAt(msgs, k) ==
  CHOOSE i \in 1..Len(msgs) :
    /\ Truthy(msgs[i].model)
    /\ Cardinality({j \in 1..(i - 1) : Truthy(msgs[j].model)}) = k - 1

\* C21: the turn that produces the k-th assistant message (0-indexed)
\* sends a history of length 1 + k: the content of message 0 with role
\* user, then the contents of the k earlier assistant messages in
\* transcript order with role assistant and no team attribution, none
\* omitted and none duplicated.
C21_ContextIsWholeTranscript ==
  [][ "turn" \in last'.did =>
        LET k == AiCount(messages)
            context == request'.context
        IN /\ Len(context) = 1 + k
           /\ context[1] = [role |-> "user", content |-> messages[1].content]
           /\ \A i \in 1..k :
                context[1 + i] =
                  [role |-> "assistant",
                   content |-> messages[TaggedAt(messages, i)].content]
    ]_vars

C21_Witness ==
  /\ "turn" \in last.did
  /\ Len(request.context) >= 4
  /\ \E i, j \in 2..Len(request.context) :
       request.context[i].content # request.context[j].content

\* C22: for every team name and every discussion style the system prompt
\* is built: it is the team's role template, with the uploaded-document
\* wording exactly when an uploaded document is present, or the generic
\* template for a team name without one, followed by exactly one directive
\* for each of the four known styles and by nothing for any other style.
C22_PromptAlwaysBuilt ==
  request # NoRequest =>
    LET prompt == request.system_prompt
        known == {"Frontend Dev", "Backend Dev", "Database Expert",
                  "Security Specialist", "AI Engineer", "Project Manager",
                  "DevOps Engineer"}
    IN /\ Len(prompt) >= 1
       /\ prompt[1].you_are = request.team
       /\ IF request.team \in known
          THEN /\ prompt[1].template = request.team
               /\ prompt[1].wording =
                    (IF request.is_file_content THEN "uploaded documentation"
                     ELSE "described project")
          ELSE prompt[1].template = "expert in your field"
       /\ IF request.style \in {"Collaborative", "Debate", "Technical Review",
                                "Creative Brainstorm"}
          THEN Len(prompt) = 2 /\ prompt[2] = request.style
          ELSE Len(prompt) = 1

C22_Witness ==
  /\ request.team = "QA Engineer"
  /\ request.style = "Socratic"
  /\ request.is_file_content
  /\ Len(request.system_prompt) = 1
  /\ request.system_prompt[1].template = "expert in your field"

RECURSIVE IsSubsequence(_, _)
\* q can be obtained from r by leaving elements out.
IsSubsequence(q, r) ==
  IF q = <<>> THEN TRUE
  ELSE IF r = <<>> THEN FALSE
  ELSE IF Head(q) = Head(r) THEN IsSubsequence(Tail(q), Tail(r))
  ELSE IsSubsequence(q, Tail(r))

\* Role, content and team of the messages of q, an absent team as "".
Told(q) ==
  [i \in 1..Len(q) |->
     [role |-> q[i].role, content |-> q[i].content,
      model |-> IF Truthy(q[i].model) THEN q[i].model ELSE ""]]

\* C23: a turn is recorded in the transcript whether or not its row is
\* persisted, so the persisted messages of the active conversation are
\* always an order-preserving subsequence of the in-memory transcript,
\* and equal to it when no persistence call has failed.
C23_PersistedIsSubsequence ==
  conversation_id # 0 =>
    LET persisted == Told(SelectSeq2(db_messages, conversation_id, 1))
    IN /\ IsSubsequence(persisted, Told(messages))
       /\ faults.db = 0 => persisted = Told(messages)

\* C24: right after a conversation is loaded from the history list, the
\* in-memory messages are the messages persisted under the conversation
\* id that became active, in their persisted order, and the in-memory
\* generated files are the files persisted under that id.
C24_LoadedIsActiveConversation ==
  "load_conversation" \in last.did =>
    /\ Told(messages) = Told(SelectSeq2(db_messages, conversation_id, 1))
    /\ {[file_type |-> generated_files[i].file_type,
         file_name |-> generated_files[i].file_name,
         file_content |-> generated_files[i].file_content] :
          i \in 1..Len(generated_files)} =
       {[file_type |-> db_files[i].file_type,
         file_name |-> db_files[i].file_name,
         file_content |-> db_files[i].file_content] :
          i \in {j \in 1..Len(db_files) :
                   db_files[j].conversation_id = conversation_id}}

\* C25: when generate_all_files reports success, the three documents have
\* been appended to the store and the session's generated_files holds
\* exactly those three; without an active conversation it reports failure
\* and appends nothing.
C25_SuccessMeansThreeSaved ==
  [][ "generate_all_files" \in last'.did =>
        /\ "success" \in last'.did =>
             /\ Len(db_files') = Len(db_files) + 3
             /\ IsPrefix(db_files, db_files')
             /\ Len(generated_files') = 3
             /\ \A i \in 1..3 :
                  /\ generated_files'[i].file_name =
                       db_files'[Len(db_files) + i].file_name
                  /\ generated_files'[i].file_content =
                       db_files'[Len(db_files) + i].file_content
        /\ conversation_id = 0 =>
             /\ "success" \notin last'.did
             /\ db_files' = db_files
    ]_vars

C27_EdgeCaseLeavesPartsEmpty ==
  (document # <<>> /\ (messages = <<>> \/ messages[1].role # "user")) =>
    /\ document[1].md.goals = <<>>
    /\ document[1].cursor.goals = <<>>
    /\ document[1].manager.goals = <<>>
    /\ document[1].md.sections = <<>>
    /\ document[1].manager.team_stats = <<>>

\* C28: whenever the message list is non-empty the session's team list is
\* non-empty, so the progress computation of the stats panel never
\* divides by zero, also after a conversation is loaded from the history
\* list in a session in which no team was selected.
C28_MessagesImplyTeams ==
  /\ messages # <<>> => teams # <<>>
  /\ "ZeroDivisionError" \notin last.did

\* C29: the project type of a folder is 'python' when the python files are
\* strictly more than 30% of all files, otherwise 'javascript' and then
\* 'java' under the same test, otherwise 'unknown'; largest_files holds at
\* most ten entries in non-increasing order of size.
C29_ProjectTypeAndLargestFiles ==
  analysis.kind = "folder" =>
    LET files == analysis.files
        structure == analysis.structure
        largest == structure.largest_files
        count(lang) ==
          Cardinality({i \in 1..Len(files) :
                         ext_to_lang(files[i].name.ext) = lang})
        over(lang) == 10 * count(lang) > 3 * Len(files)
    IN /\ structure.project_type =
            IF over("python") THEN "python"
            ELSE IF over("javascript") THEN "javascript"
            ELSE IF over("java") THEN "java"
            ELSE "unknown"
       /\ Len(largest) <= 10
       /\ \A i \in 1..Len(largest) :
            /\ Len(largest[i]) = 2
            /\ \E j \in 1..Len(files) :
                 largest[i] = <<files[j].name, files[j].size>>
            /\ i < Len(largest) => largest[i][2] >= largest[i + 1][2]

\* Ten files of which exactly three are python and three javascript: both
\* are at 30% and neither qualifies; two of the ten sizes cannot be read.
C29_Witness ==
  /\ analysis.kind = "folder"
  /\ Len(analysis.files) = 10
  /\ Cardinality({i \in 1..10 : analysis.files[i].name.ext = ".py"}) = 3
  /\ Cardinality({i \in 1..10 : analysis.files[i].name.ext = ".js"}) = 3
  /\ analysis.structure.project_type = "unknown"
  /\ Len(analysis.structure.largest_files) = 8

\* C30: the complexity bucket of a file is that of the score
\* function_count + loop/conditional_count + floor(line_count / 50), with
\* function_count the number of functions found in the file for its
\* language: 'simple' below 5, 'moderate' from 5 and below 15, 'complex'
\* from 15; the refactoring suggestion is emitted exactly for 'complex'.
C30_ScoreCountsFunctionsFound ==
  analysis.kind = "file" =>
    LET result == analysis.result
        score == result.functions + analysis.content.cond
                 + (result.lines \div 50)
        emitted == \E i \in 1..Len(result.suggestions) :
                     result.suggestions[i]
                       = "Consider refactoring for better maintainability"
    IN /\ result.complexity = IF score < 5 THEN "simple"
                              ELSE IF score < 15 THEN "moderate"
                              ELSE "complex"
       /\ emitted <=> result.complexity = "complex"

====
